---- MODULE Spec2Model ----
(***************************************************************************)
(* A model of the Game of Life engine of src/src/lib.rs: the Universe      *)
(* struct (width, height, cells: FixedBitSet), its constructors, tick,     *)
(* the mutation operations and render.                                     *)
(*                                                                         *)
(* A Rust panic unwinds out of the exported call; the model records it in  *)
(* status = "panic" and stops there (the call failed).  u32/usize          *)
(* arithmetic is modelled on the naturals: every dimension and coordinate  *)
(* the model draws is far below 2^16, so no product reaches 2^32.          *)
(***************************************************************************)
EXTENDS Integers, Sequences, FiniteSets

VARIABLES
    width,      \* Universe.width  (u32)
    height,     \* Universe.height (u32)
    cells,      \* Universe.cells  (FixedBitSet): [length, ones]
    status,     \* "none": not constructed yet; "ok"; "panic": the last call panicked
    last,       \* the last call made by the host: [op, a, b, list]
    prev,       \* the universe as it was when the last call was made
    output,     \* the rows returned by the last call of render (<<>> otherwise)
    glider      \* observer: a glider stamped on an all-dead grid, and the ticks since

vars == <<width, height, cells, status, last, prev, output, glider>>

----------------------------------------------------------------------------
(* Bounds of the model.                                                    *)

\* The general specification draws widths and heights from 0..MaxDim ...
MaxDim == 3
\* ... and keeps grids of at most MaxCells cells.
MaxCells == 9
\* The tick specification adds the TickDim x TickDim grid.
TickDim == 5
\* Ticks observed after a glider was stamped on an all-dead grid.
MaxGen == 8
\* The glider specification draws widths and heights from 5..MaxGliderDim
\* (and the 20 x 20 grid), and centres from 0..MaxGliderDim.
MaxGliderDim == 6

----------------------------------------------------------------------------
(* FixedBitSet (crate fixedbitset), as far as lib.rs uses it.  A bit set   *)
(* is [length |-> number of bits, ones |-> the set bits].                  *)

\* The result of a call that panicked instead of returning a bit set.
Panic == [length |-> -1, ones |-> {}]

IsPanic(bs) == bs.length = -1

\* FixedBitSet::with_capacity(bits): `bits` bits, all zero.
with_capacity(bits) == [length |-> bits, ones |-> {}]

\* FixedBitSet::set(bit, enabled): asserts bit < length.
set(bs, bit, enabled) ==
    IF IsPanic(bs) \/ bit >= bs.length THEN Panic
    ELSE [bs EXCEPT !.ones = IF enabled THEN @ \cup {bit} ELSE @ \ {bit}]

\* FixedBitSet::toggle(bit): asserts bit < length.
toggle(bs, bit) ==
    IF IsPanic(bs) \/ bit >= bs.length THEN Panic
    ELSE [bs EXCEPT !.ones = IF bit \in @ THEN @ \ {bit} ELSE @ \cup {bit}]

\* Index<usize>: cells[bit] is contains(bit); a bit past the end reads false.
contains(bs, bit) == bit \in bs.ones

BITS == 32

\* FixedBitSet::as_slice(): the u32 blocks, ceil(length / 32) of them; block b
\* is given as the set of bit positions set in it (it is != 0 iff non-empty).
as_slice(bs) ==
    [b \in 1..((bs.length + BITS - 1) \div BITS) |->
        {i \in bs.ones : i \div BITS = b - 1}]

----------------------------------------------------------------------------
(* Universe: indexing and neighbour counting (impl Universe, lines 30-96). *)

\* The universe the methods are called on.
Self == [width |-> width, height |-> height, cells |-> cells]

get_index(self, row, col) == row * self.width + col

\* Rust's % on i32: the remainder has the sign of the dividend.
rem(a, b) == IF a >= 0 THEN a % b ELSE 0 - ((0 - a) % b)

\* get_index_signed panics (remainder by zero) when a dimension is 0.
get_index_signed_panics(self) == self.height = 0 \/ self.width = 0

\* A variant of get_index_signed that mirrors a negative coordinate
\* (|v| % dim) instead of wrapping it.
get_index_signed_mirrored(self, row, col) ==
    get_index(self,
              (IF row >= 0 THEN row ELSE 0 - row) % self.height,
              (IF col >= 0 THEN col ELSE 0 - col) % self.width)

get_index_signed(self, row, col) ==
    get_index(self,
              rem(rem(row, self.height) + self.height, self.height),
              rem(rem(col, self.width) + self.width, self.width))

Bit(b) == IF b THEN 1 ELSE 0

\* A variant of live_neighbor_count that also counts the cell itself.
live_neighbor_count_with_self(self, row, col) ==
    LET north == IF row = 0 THEN self.height - 1 ELSE row - 1
        south == IF row = self.height - 1 THEN 0 ELSE row + 1
        west  == IF col = 0 THEN self.width - 1 ELSE col - 1
        east  == IF col = self.width - 1 THEN 0 ELSE col + 1
    IN    Bit(contains(self.cells, get_index(self, north, west)))
        + Bit(contains(self.cells, get_index(self, north, col)))
        + Bit(contains(self.cells, get_index(self, north, east)))
        + Bit(contains(self.cells, get_index(self, row, west)))
        + Bit(contains(self.cells, get_index(self, row, col)))
        + Bit(contains(self.cells, get_index(self, row, east)))
        + Bit(contains(self.cells, get_index(self, south, west)))
        + Bit(contains(self.cells, get_index(self, south, col)))
        + Bit(contains(self.cells, get_index(self, south, east)))

\* A variant of live_neighbor_count that does not wrap: a neighbour past an
\* edge counts as dead.
live_neighbor_count_unwrapped(self, row, col) ==
    LET At(r, c) ==
            IF r < 0 \/ r >= self.height \/ c < 0 \/ c >= self.width THEN 0
            ELSE Bit(contains(self.cells, get_index(self, r, c)))
    IN    At(row - 1, col - 1) + At(row - 1, col) + At(row - 1, col + 1)
        + At(row, col - 1) + At(row, col + 1)
        + At(row + 1, col - 1) + At(row + 1, col) + At(row + 1, col + 1)

live_neighbor_count(self, row, col) ==
    LET north == IF row = 0 THEN self.height - 1 ELSE row - 1
        south == IF row = self.height - 1 THEN 0 ELSE row + 1
        west  == IF col = 0 THEN self.width - 1 ELSE col - 1
        east  == IF col = self.width - 1 THEN 0 ELSE col + 1
    IN    Bit(contains(self.cells, get_index(self, north, west)))
        + Bit(contains(self.cells, get_index(self, north, col)))
        + Bit(contains(self.cells, get_index(self, north, east)))
        + Bit(contains(self.cells, get_index(self, row, west)))
        + Bit(contains(self.cells, get_index(self, row, east)))
        + Bit(contains(self.cells, get_index(self, south, west)))
        + Bit(contains(self.cells, get_index(self, south, col)))
        + Bit(contains(self.cells, get_index(self, south, east)))

----------------------------------------------------------------------------
(* Universe::tick (lines 101-132).                                         *)

\* A variant of the rule without rule 1 (underpopulation).
next_state_without_underpopulation(current_state, live_cnt) ==
    IF current_state /\ live_cnt > 3 THEN FALSE
    ELSE IF ~current_state /\ live_cnt = 3 THEN TRUE
    ELSE current_state

\* The match of lines 111-126, arm by arm.
next_state(current_state, live_cnt) ==
    IF current_state /\ live_cnt < 2 THEN FALSE
    ELSE IF current_state /\ (live_cnt = 2 \/ live_cnt = 3) THEN TRUE
    ELSE IF current_state /\ live_cnt > 3 THEN FALSE
    ELSE IF ~current_state /\ live_cnt = 3 THEN TRUE
    ELSE current_state

\* The inner loop, for col in 0..width, from `col` on: reads self.cells,
\* writes next.
RECURSIVE tick_cols(_, _, _, _)
tick_cols(self, row, col, next) ==
    IF col >= self.width \/ IsPanic(next) THEN next
    ELSE LET live_cnt == live_neighbor_count(self, row, col)
             idx == get_index(self, row, col)
             current_state == contains(self.cells, idx)
         IN  tick_cols(self, row, col + 1,
                       set(next, idx, next_state(current_state, live_cnt)))

\* The outer loop, for row in 0..height, from `row` on.
RECURSIVE tick_rows(_, _, _)
tick_rows(self, row, next) ==
    IF row >= self.height \/ IsPanic(next) THEN next
    ELSE tick_rows(self, row + 1, tick_cols(self, row, 0, next))

\* A variant of tick that updates the grid in place: each cell reads the
\* cells already written in the same pass.
RECURSIVE tick_in_place_from(_, _)
tick_in_place_from(self, idx) ==
    IF idx >= self.width * self.height \/ IsPanic(self.cells) THEN self.cells
    ELSE LET row == idx \div self.width
             col == idx % self.width
             live_cnt == live_neighbor_count(self, row, col)
             current_state == contains(self.cells, idx)
         IN  tick_in_place_from(
                 [self EXCEPT !.cells =
                     set(@, idx, next_state(current_state, live_cnt))],
                 idx + 1)

tick_in_place(self) == tick_in_place_from(self, 0)

\* tick: next = cells.clone(); the two loops; the value assigned to self.cells.
tick(self) == tick_rows(self, 0, self.cells)

----------------------------------------------------------------------------
(* Constructors (lines 134-183).                                           *)

\* Universe::new: cells.set(idx, Math::random() >= 0.5) for idx in 0..size;
\* `draws` is the set of idx whose draw came out >= 0.5.
new(w, h, draws) ==
    LET size == w * h
    IN  [length |-> size, ones |-> {idx \in 0..(size - 1) : idx \in draws}]

top_offset == 32

left_offset == 32

copperhead ==
    << FALSE, TRUE, TRUE, FALSE, FALSE, TRUE, TRUE, FALSE,
       FALSE, FALSE, FALSE, TRUE, TRUE, FALSE, FALSE, FALSE,
       FALSE, FALSE, FALSE, TRUE, TRUE, FALSE, FALSE, FALSE,
       TRUE, FALSE, TRUE, FALSE, FALSE, TRUE, FALSE, TRUE,
       TRUE, FALSE, FALSE, FALSE, FALSE, FALSE, FALSE, TRUE,
       FALSE, FALSE, FALSE, FALSE, FALSE, FALSE, FALSE, FALSE,
       TRUE, FALSE, FALSE, FALSE, FALSE, FALSE, FALSE, TRUE,
       FALSE, TRUE, TRUE, FALSE, FALSE, TRUE, TRUE, FALSE,
       FALSE, FALSE, TRUE, TRUE, TRUE, TRUE, FALSE, FALSE,
       FALSE, FALSE, FALSE, FALSE, FALSE, FALSE, FALSE, FALSE,
       FALSE, FALSE, FALSE, TRUE, TRUE, FALSE, FALSE, FALSE,
       FALSE, FALSE, FALSE, TRUE, TRUE, FALSE, FALSE, FALSE >>

\* The two loops of lines 167-176, flattened: step k is ship_row = k \div 8,
\* ship_col = k % 8, cells_row = top_offset + 1 + ship_row.
RECURSIVE new_copperhead_from(_, _, _)
new_copperhead_from(w, bs, k) ==
    IF k >= Len(copperhead) \/ IsPanic(bs) THEN bs
    ELSE LET ship_row == k \div 8
             ship_col == k % 8
             cells_row == top_offset + 1 + ship_row
             row_offset == ship_row * 8
         IN  new_copperhead_from(w,
                 set(bs, cells_row * w + left_offset + ship_col + 1,
                     copperhead[row_offset + ship_col + 1]),
                 k + 1)

\* A variant of new_copperhead that stamps every row of the grid with the
\* first row of the bitmap (row_offset left out).
RECURSIVE new_copperhead_first_row_from(_, _, _)
new_copperhead_first_row_from(w, bs, k) ==
    IF k >= Len(copperhead) \/ IsPanic(bs) THEN bs
    ELSE LET ship_row == k \div 8
             ship_col == k % 8
             cells_row == top_offset + 1 + ship_row
         IN  new_copperhead_first_row_from(w,
                 set(bs, cells_row * w + left_offset + ship_col + 1,
                     copperhead[ship_col + 1]),
                 k + 1)

new_copperhead_first_row(w, h) ==
    new_copperhead_first_row_from(w, with_capacity(w * h), 0)

new_copperhead(w, h) == new_copperhead_from(w, with_capacity(w * h), 0)

----------------------------------------------------------------------------
(* Mutation operations (lines 197-243, 270-277) and render.                *)

\* A variant of set_width that stores the width and keeps the old cells.
set_width_without_realloc(self, w) == self.cells

set_width(self, w) == with_capacity(w * self.height)

\* A variant of set_height that keeps the cells that still fit.
set_height_keeping_content(self, h) ==
    [length |-> self.width * h,
     ones |-> {i \in self.cells.ones : i < self.width * h}]

set_height(self, h) == with_capacity(self.width * h)

\* A variant of toggle_cell with the coordinates swapped in the index.
toggle_cell_transposed(self, row, col) ==
    toggle(self.cells, get_index(self, col, row))

toggle_cell(self, row, col) == toggle(self.cells, get_index(self, row, col))

\* The loop of set_cells, from the i-th pair on.  A panic leaves self.cells
\* as the pairs before it set it; the result here is Panic, and the caller
\* keeps the old cells: the only panic the loop can raise on a universe with
\* cells.length = width * height is the remainder by zero, at the first pair.
RECURSIVE set_cells_from(_, _, _)
set_cells_from(self, list, i) ==
    IF i > Len(list) \/ IsPanic(self.cells) THEN self.cells
    ELSE IF get_index_signed_panics(self) THEN Panic
    ELSE LET idx == get_index_signed(self, list[i][1], list[i][2])
         IN  set_cells_from([self EXCEPT !.cells = set(@, idx, TRUE)],
                            list, i + 1)

set_cells(self, list) == set_cells_from(self, list, 1)

\* A variant of draw_glider with the top cell on the other side.
draw_glider_flipped(self, center_row, center_col) ==
    LET row == center_row
        col == center_col
    IN  set_cells(self, << <<row, col>>,
                           <<row - 1, col + 1>>,
                           <<row, col + 1>>,
                           <<row + 1, col>>,
                           <<row + 1, col - 1>> >>)

draw_glider(self, center_row, center_col) ==
    LET row == center_row
        col == center_col
    IN  set_cells(self, << <<row, col>>,
                           <<row - 1, col - 1>>,
                           <<row, col + 1>>,
                           <<row + 1, col>>,
                           <<row + 1, col - 1>> >>)

draw_pulsar(self, center_row, center_col) ==
    LET row == center_row
        col == center_col
    IN  set_cells(self, <<
<<row - 6, col - 4>>, <<row - 6, col - 3>>, <<row - 6, col - 2>>, <<row - 6, col + 4>>, <<row - 6, col + 3>>, <<row - 6, col + 2>>,
<<row - 4, col - 6>>, <<row - 4, col - 1>>, <<row - 4, col + 1>>, <<row - 4, col + 6>>,
<<row - 3, col - 6>>, <<row - 3, col - 1>>, <<row - 3, col + 1>>, <<row - 3, col + 6>>,
<<row - 2, col - 6>>, <<row - 2, col - 1>>, <<row - 2, col + 1>>, <<row - 2, col + 6>>,
<<row - 1, col - 4>>, <<row - 1, col - 3>>, <<row - 1, col - 2>>, <<row - 1, col + 4>>, <<row - 1, col + 3>>, <<row - 1, col + 2>>,
<<row + 1, col - 4>>, <<row + 1, col - 3>>, <<row + 1, col - 2>>, <<row + 1, col + 4>>, <<row + 1, col + 3>>, <<row + 1, col + 2>>,
<<row + 2, col - 6>>, <<row + 2, col - 1>>, <<row + 2, col + 1>>, <<row + 2, col + 6>>,
<<row + 3, col - 6>>, <<row + 3, col - 1>>, <<row + 3, col + 1>>, <<row + 3, col + 6>>,
<<row + 4, col - 6>>, <<row + 4, col - 1>>, <<row + 4, col + 1>>, <<row + 4, col + 6>>,
<<row + 6, col - 4>>, <<row + 6, col - 3>>, <<row + 6, col - 2>>, <<row + 6, col + 4>>, <<row + 6, col + 3>>, <<row + 6, col + 2>>
        >>)

\* slice.chunks(0) panics.
render_panics(self) == self.width = 0

\* Display::fmt (lines 250-262): one line per chunk of `width` BLOCKS of
\* as_slice(), one symbol per block: TRUE for the filled square (block != 0),
\* FALSE for the empty square.
render(self) ==
    LET blocks == as_slice(self.cells)
        n == Len(blocks)
        lines == (n + self.width - 1) \div self.width
    IN  [l \in 1..lines |->
            [j \in 1..(IF l * self.width <= n THEN self.width
                       ELSE n - (l - 1) * self.width) |->
                blocks[(l - 1) * self.width + j] # {}]]

----------------------------------------------------------------------------
(* The state machine: one action per exported call.                        *)

NoCall == [op |-> "none", a |-> 0, b |-> 0, list |-> <<>>]

NoGlider == [on |-> FALSE, row |-> 0, col |-> 0, gen |-> 0]

Init ==
    /\ width = 0
    /\ height = 0
    /\ cells = with_capacity(0)
    /\ status = "none"
    /\ last = NoCall
    /\ prev = [width |-> 0, height |-> 0, cells |-> with_capacity(0)]
    /\ output = <<>>
    /\ glider = NoGlider

\* The end of a call: a panic leaves the universe as it was (no universe, for
\* a constructor) and ends the run; a return installs the new fields.
Return(op, a, b, list, w, h, bs) ==
    /\ last' = [op |-> op, a |-> a, b |-> b, list |-> list]
    /\ prev' = Self
    /\ IF IsPanic(bs)
       THEN /\ status' = "panic"
            /\ UNCHANGED <<width, height, cells>>
       ELSE /\ status' = "ok"
            /\ width' = w
            /\ height' = h
            /\ cells' = bs

New(w, h, draws) ==
    /\ status = "none"
    /\ Return("new", w, h, <<>>, w, h, new(w, h, draws))
    /\ output' = <<>>
    /\ glider' = NoGlider

NewCopperhead(w, h) ==
    /\ status = "none"
    /\ Return("new_copperhead", w, h, <<>>, w, h, new_copperhead(w, h))
    /\ output' = <<>>
    /\ glider' = NoGlider

Tick ==
    /\ status = "ok"
    /\ Return("tick", 0, 0, <<>>, width, height, tick(Self))
    /\ output' = <<>>
    /\ glider' = IF glider.on /\ glider.gen < MaxGen
                 THEN [glider EXCEPT !.gen = @ + 1]
                 ELSE NoGlider

SetWidth(w) ==
    /\ status = "ok"
    /\ Return("set_width", w, 0, <<>>, w, height, set_width(Self, w))
    /\ output' = <<>>
    /\ glider' = NoGlider

SetHeight(h) ==
    /\ status = "ok"
    /\ Return("set_height", h, 0, <<>>, width, h, set_height(Self, h))
    /\ output' = <<>>
    /\ glider' = NoGlider

ToggleCell(row, col) ==
    /\ status = "ok"
    /\ Return("toggle_cell", row, col, <<>>, width, height,
              toggle_cell(Self, row, col))
    /\ output' = <<>>
    /\ glider' = NoGlider

SetCells(list) ==
    /\ status = "ok"
    /\ Return("set_cells", 0, 0, list, width, height, set_cells(Self, list))
    /\ output' = <<>>
    /\ glider' = NoGlider

DrawGlider(center_row, center_col) ==
    /\ status = "ok"
    /\ Return("draw_glider", center_row, center_col, <<>>, width, height,
              draw_glider(Self, center_row, center_col))
    /\ output' = <<>>
    /\ glider' = IF cells.ones = {} /\ ~get_index_signed_panics(Self)
                 THEN [on |-> TRUE, row |-> center_row, col |-> center_col,
                       gen |-> 0]
                 ELSE NoGlider

DrawPulsar(center_row, center_col) ==
    /\ status = "ok"
    /\ Return("draw_pulsar", center_row, center_col, <<>>, width, height,
              draw_pulsar(Self, center_row, center_col))
    /\ output' = <<>>
    /\ glider' = NoGlider

Render ==
    /\ status = "ok"
    /\ Return("render", 0, 0, <<>>, width, height,
              IF render_panics(Self) THEN Panic ELSE cells)
    /\ output' = IF render_panics(Self) THEN <<>> ELSE render(Self)
    /\ UNCHANGED glider

----------------------------------------------------------------------------
(* Spec: every call, on grids of at most MaxDim x MaxDim and MaxCells      *)
(* cells, with every outcome of the random source.                         *)

Dims == 0..MaxDim

\* Lists of signed coordinate pairs for set_cells: empty, negative, in range,
\* past the end, beyond one whole turn, repeated.
StampLists ==
    { <<>>,
      << <<-1, -1>> >>,
      << <<0, MaxDim + 1>> >>,
      << <<0, 0>>, <<0, 0>> >>,
      << <<0 - MaxDim - 2, 1>>, <<1, 0 - MaxDim - 2>> >>,
      << <<MaxDim, MaxDim>>, <<-1, 0>> >>,
      << <<2 * MaxDim + 1, 0 - 2 * MaxDim - 1>> >> }

\* Centres for draw_glider and draw_pulsar: a corner, inside, past the end.
Centres == { <<0, 0>>, <<1, 2>>, <<MaxDim, MaxDim>> }

Next ==
    \/ \E w \in Dims, h \in Dims :
           /\ w * h <= MaxCells
           /\ \E draws \in SUBSET (0..(w * h - 1)) : New(w, h, draws)
    \/ \E w \in Dims, h \in Dims : NewCopperhead(w, h)
    \/ Tick
    \/ \E w \in Dims : w * height <= MaxCells /\ SetWidth(w)
    \/ \E h \in Dims : width * h <= MaxCells /\ SetHeight(h)
    \/ \E row \in Dims, col \in Dims : ToggleCell(row, col)
    \/ \E list \in StampLists : SetCells(list)
    \/ \E c \in Centres : DrawGlider(c[1], c[2])
    \/ \E c \in Centres : DrawPulsar(c[1], c[2])
    \/ Render

Spec == Init /\ [][Next]_vars

----------------------------------------------------------------------------
(* SpecTick: new, then any number of ticks; on every grid of 1..MaxDim     *)
(* rows and columns with every outcome of the random source, and on the    *)
(* TickDim x TickDim grid with every outcome that leaves the cells outside *)
(* the 3 x 3 block at rows and columns 1..3 dead.                          *)

Block == {row * TickDim + col : row \in 1..3, col \in 1..3}

NextTick ==
    \/ \E w \in 1..MaxDim, h \in 1..MaxDim :
           /\ w * h <= MaxCells
           /\ \E draws \in SUBSET (0..(w * h - 1)) : New(w, h, draws)
    \/ \E draws \in SUBSET Block : New(TickDim, TickDim, draws)
    \/ Tick

SpecTick == Init /\ [][NextTick]_vars

----------------------------------------------------------------------------
(* SpecGlider: a glider stamped on a fresh grid of 4..MaxGliderDim or 20   *)
(* rows and columns, then up to MaxGen ticks.  The random source of new    *)
(* leaves the grid all dead or sets cell 0 only.                           *)

GliderDims == (4..MaxGliderDim) \cup {20}

GliderCentres == (0..MaxGliderDim) \cup {10}

NextGlider ==
    \/ \E w \in GliderDims, h \in GliderDims, draws \in {{}, {0}} :
           New(w, h, draws)
    \/ \E row \in GliderCentres, col \in GliderCentres :
           last.op = "new" /\ DrawGlider(row, col)
    \/ glider.on /\ glider.gen < MaxGen /\ Tick

SpecGlider == Init /\ [][NextGlider]_vars

----------------------------------------------------------------------------
(* SpecCopper: new_copperhead on grids around the size of the pattern's    *)
(* footprint, then one call of tick, toggle_cell or render.                *)

\* The rows and columns the pattern is stamped on.
FootprintRows == (top_offset + 1)..(top_offset + Len(copperhead) \div 8)

FootprintCols == (left_offset + 1)..(left_offset + 8)

\* The least width and height that hold the footprint.
FitWidth == left_offset + 8 + 1

FitHeight == top_offset + Len(copperhead) \div 8 + 1

CopperWidths == {0, 1, FitWidth - 1, FitWidth, FitWidth + 1}

CopperHeights == {0, FitHeight - 1, FitHeight, FitHeight + 1, 2 * FitHeight}

NextCopper ==
    \/ \E w \in CopperWidths, h \in CopperHeights : NewCopperhead(w, h)
    \/ last.op = "new_copperhead" /\ Tick
    \/ \E row \in {0, top_offset + 1, top_offset + 4},
          col \in {0, left_offset + 1, left_offset + 8} :
           last.op = "new_copperhead" /\ ToggleCell(row, col)
    \/ last.op = "new_copperhead" /\ Render

SpecCopper == Init /\ [][NextCopper]_vars

----------------------------------------------------------------------------
(* What the claims are stated with: the grid read cell by cell.            *)

\* Cell (row, col) of universe u is alive.
Alive(u, row, col) == (row * u.width + col) \in u.cells.ones

\* The live cells of u, as (row, col) pairs.
LiveCells(u) ==
    {rc \in (0..(u.height - 1)) \X (0..(u.width - 1)) : Alive(u, rc[1], rc[2])}

Offsets == ({-1, 0, 1} \X {-1, 0, 1}) \ {<<0, 0>>}

\* The number of offsets whose toroidally wrapped cell is alive (% is the
\* floored modulo).
ToroidalLiveNeighbours(u, row, col) ==
    Cardinality({o \in Offsets :
        Alive(u, (row + o[1]) % u.height, (col + o[2]) % u.width)})

\* The B3/S23 successor of u, every cell read from u.
B3S23(u) ==
    {rc \in (0..(u.height - 1)) \X (0..(u.width - 1)) :
        LET n == ToroidalLiveNeighbours(u, rc[1], rc[2])
        IN  \/ Alive(u, rc[1], rc[2]) /\ n \in {2, 3}
            \/ ~Alive(u, rc[1], rc[2]) /\ n = 3}

\* The universe now.
Now == [width |-> width, height |-> height, cells |-> cells]

SameShape == width = prev.width /\ height = prev.height
                /\ cells.length = prev.cells.length

----------------------------------------------------------------------------
(* The claims.                                                             *)

\* C1: on a grid with width >= 1 and height >= 1, one tick yields the grid in
\* which a cell is alive iff in the pre-tick grid it was alive with 2 or 3
\* live toroidal neighbours or dead with exactly 3 (simultaneous update).
C1_TickIsSimultaneousB3S23 ==
    (last.op = "tick" /\ prev.width >= 1 /\ prev.height >= 1) =>
        /\ status = "ok"
        /\ SameShape
        /\ cells.ones \subseteq 0..(cells.length - 1)
        /\ LiveCells(Now) = B3S23(prev)

\* C1 witness: a tick in which a cell with more than 3 live neighbours died,
\* a cell was born and a cell survived.
C1_Witness ==
    /\ last.op = "tick" /\ status = "ok"
    /\ \E rc \in LiveCells(prev) \ LiveCells(Now) :
           ToroidalLiveNeighbours(prev, rc[1], rc[2]) > 3
    /\ prev.cells.ones \ cells.ones # {}
    /\ cells.ones \ prev.cells.ones # {}
    /\ cells.ones \cap prev.cells.ones # {}

\* C2: in every state reached by any sequence of calls, the length of the
\* cell array is width * height.
C2_LengthIsWidthTimesHeight == cells.length = width * height

\* C2 witness: set_width has changed the width of a grid with cells.
C2_Witness ==
    /\ last.op = "set_width" /\ status = "ok"
    /\ width # prev.width
    /\ prev.cells.length > 0
    /\ cells.length > 0

\* C3: set_width(w) yields a w x (old height) grid and set_height(h) an
\* (old width) x h grid, every cell dead, whatever the cells were.
C3_ResizeYieldsDeadGrid ==
    /\ last.op = "set_width" =>
          /\ status = "ok"
          /\ width = last.a /\ height = prev.height
          /\ cells.length = last.a * prev.height
          /\ LiveCells(Now) = {} /\ cells.ones = {}
    /\ last.op = "set_height" =>
          /\ status = "ok"
          /\ width = prev.width /\ height = last.a
          /\ cells.length = prev.width * last.a
          /\ LiveCells(Now) = {} /\ cells.ones = {}

\* C3 witness: set_height on a grid with live cells, to a size with cells.
C3_Witness ==
    /\ last.op = "set_height" /\ status = "ok"
    /\ prev.cells.ones # {}
    /\ cells.length > 0

\* The cells a list of signed pairs names, wrapped with the floored modulo.
Wrapped(u, list) ==
    {<<list[i][1] % u.height, list[i][2] % u.width>> : i \in 1..Len(list)}

\* C4: on a grid with width >= 1 and height >= 1, set_cells(L) never fails,
\* and the live set afterwards is the previous live set united with the
\* cells of L wrapped by the floored modulo.
C4_SetCellsWraps ==
    (last.op = "set_cells" /\ prev.width >= 1 /\ prev.height >= 1) =>
        /\ status = "ok"
        /\ SameShape
        /\ cells.ones \subseteq 0..(cells.length - 1)
        /\ LiveCells(Now) = LiveCells(prev) \cup Wrapped(prev, last.list)

\* C4 witness: set_cells with a negative coordinate and one past the end, on
\* a grid that had live cells, has set a cell.
C4_Witness ==
    /\ last.op = "set_cells" /\ status = "ok"
    /\ width >= 2 /\ height >= 2
    /\ \E i \in 1..Len(last.list) :
           last.list[i][1] < 0 \/ last.list[i][2] < 0
    /\ \E i \in 1..Len(last.list) :
           last.list[i][1] >= height \/ last.list[i][2] >= width
    /\ prev.cells.ones # {}
    /\ cells.ones # prev.cells.ones

\* C5 (as claimed): render returns `height` rows of `width` symbols, the
\* symbol of row r, position c being the alive symbol iff cell (r, c) is alive.
C5_RenderIsOneSymbolPerCell ==
    last.op = "render" =>
        /\ status = "ok"
        /\ Len(output) = height
        /\ \A r \in 1..Len(output) :
              /\ Len(output[r]) = width
              /\ \A c \in 1..Len(output[r]) :
                    output[r][c] = Alive(Now, r - 1, c - 1)

\* C6 (as claimed): toggle_cell(row, col) with row >= height or col >= width
\* fails and changes no cell.
C6_ToggleOutOfBoundsFails ==
    (last.op = "toggle_cell"
        /\ (last.a >= prev.height \/ last.b >= prev.width)) =>
        /\ status = "panic"
        /\ cells = prev.cells

\* C7 (as claimed): on a universe with width = 0 or height = 0, tick,
\* toggle_cell, set_cells, draw_glider and draw_pulsar complete without
\* failure and leave the state unchanged.
C7_ZeroSizeCallsAreNoOps ==
    (last.op \in {"tick", "toggle_cell", "set_cells", "draw_glider",
                  "draw_pulsar"}
        /\ (prev.width = 0 \/ prev.height = 0)) =>
        /\ status = "ok"
        /\ Now = prev

\* C10 (as claimed): new and new_copperhead called with width = 0 or
\* height = 0 return a universe with no cells and the given dimensions.
C10_ZeroSizeConstructorsReturn ==
    (last.op \in {"new", "new_copperhead"} /\ (last.a = 0 \/ last.b = 0)) =>
        /\ status = "ok"
        /\ width = last.a /\ height = last.b
        /\ cells = with_capacity(0)

\* C8: on an all-dead grid with width, height >= 5, draw_glider(r, c) and one
\* tick leave exactly the five cells (r-1,c), (r,c+1), (r+1,c-1), (r+1,c),
\* (r+1,c+1), taken modulo the dimensions; on the 20 x 20 grid with centre
\* (10, 10) these are (9,10), (10,11), (11,9), (11,10), (11,11).
C8_GliderNextPhase ==
    (glider.on /\ glider.gen = 1 /\ width >= 5 /\ height >= 5) =>
        /\ status = "ok"
        /\ last.op = "tick"
        /\ LET r == glider.row
               c == glider.col
           IN  LiveCells(Now) =
                   {<<(r - 1) % height, c % width>>,
                    <<r % height, (c + 1) % width>>,
                    <<(r + 1) % height, (c - 1) % width>>,
                    <<(r + 1) % height, c % width>>,
                    <<(r + 1) % height, (c + 1) % width>>}
        /\ Cardinality(cells.ones) = 5
        /\ (width = 20 /\ height = 20 /\ glider.row = 10 /\ glider.col = 10) =>
               LiveCells(Now) =
                   {<<9, 10>>, <<10, 11>>, <<11, 9>>, <<11, 10>>, <<11, 11>>}

\* C8 witness: the 20 x 20 grid, one tick after draw_glider(10, 10) on the
\* all-dead grid.
C8_Witness ==
    /\ glider.on /\ glider.gen = 1 /\ status = "ok"
    /\ width = 20 /\ height = 20
    /\ glider.row = 10 /\ glider.col = 10
    /\ prev.cells.ones # {}

\* C9 (as claimed): when the footprint does not fit (width < 41 or
\* height < 45), new_copperhead fails, and no universe with a live cell
\* outside the footprint is returned.
C9_CopperheadRejectsSmallGrid ==
    (last.op = "new_copperhead"
        /\ (last.a < FitWidth \/ last.b < FitHeight)) =>
        /\ status = "panic"
        /\ LiveCells(Now) \subseteq FootprintRows \X FootprintCols

\* C11: a tick of an all-dead grid of any size leaves it all dead, so it is
\* all dead after any number of consecutive ticks; and a 3 x 3 grid with
\* exactly one live cell is all dead after one tick.
C11_AllDeadIsFixedPoint ==
    /\ (last.op = "tick" /\ prev.cells.ones = {}) =>
          /\ status = "ok"
          /\ SameShape
          /\ cells.ones = {}
    /\ (last.op = "tick" /\ prev.width = 3 /\ prev.height = 3
            /\ Cardinality(LiveCells(prev)) = 1) =>
          /\ status = "ok"
          /\ LiveCells(Now) = {} /\ cells.ones = {}

\* C11 witness: a tick of the all-dead TickDim x TickDim grid.
C11_Witness ==
    /\ last.op = "tick" /\ status = "ok"
    /\ width = TickDim /\ height = TickDim
    /\ prev.cells.ones = {}
    /\ cells.ones = {}

\* C12: on a grid with width >= 1 and height >= 1, live_neighbor_count(row,
\* col) of an in-bounds cell is the number of the 8 offsets whose cell, wrapped
\* by the floored modulo, is alive; it is in 0..8; and on the 3 x 3 grid with
\* only (0,0) alive, live_neighbor_count(2,2) = 1.
C12_NeighbourCountIsToroidal ==
    (status = "ok" /\ width >= 1 /\ height >= 1) =>
        /\ \A row \in 0..(height - 1), col \in 0..(width - 1) :
              /\ live_neighbor_count(Now, row, col)
                     = ToroidalLiveNeighbours(Now, row, col)
              /\ live_neighbor_count(Now, row, col) \in 0..8
        /\ (width = 3 /\ height = 3 /\ LiveCells(Now) = {<<0, 0>>}) =>
               live_neighbor_count(Now, 2, 2) = 1

\* C12 witness: the TickDim x TickDim grid with a live cell whose eight
\* neighbours are all alive, after a tick (which counted the neighbours).
C12_Witness ==
    /\ status = "ok" /\ width = TickDim /\ height = TickDim
    /\ \E rc \in LiveCells(prev) :
           live_neighbor_count(prev, rc[1], rc[2]) = 8
    /\ last.op = "tick"

\* C13: toggle_cell(row, col) with row < height and col < width inverts the
\* cell at (row, col) and leaves every other cell, the width and the height
\* unchanged.
C13_ToggleFlipsOneCell ==
    (last.op = "toggle_cell" /\ last.a < prev.height /\ last.b < prev.width) =>
        /\ status = "ok"
        /\ SameShape
        /\ cells.ones \subseteq 0..(cells.length - 1)
        /\ Alive(Now, last.a, last.b) = ~Alive(prev, last.a, last.b)
        /\ LiveCells(Now) \ {<<last.a, last.b>>}
               = LiveCells(prev) \ {<<last.a, last.b>>}

\* C13 witness: toggle_cell has cleared a live cell off the diagonal of a
\* grid that keeps other live cells.
C13_Witness ==
    /\ last.op = "toggle_cell" /\ status = "ok"
    /\ last.a < height /\ last.b < width /\ last.a # last.b
    /\ Alive(prev, last.a, last.b)
    /\ ~Alive(Now, last.a, last.b)
    /\ cells.ones # {}

\* C14: when the footprint fits (width >= 41 and height >= 45),
\* new_copperhead returns a width x height grid in which cell (33+i, 33+j),
\* 0 <= i < 12, 0 <= j < 8, is alive iff entry 8*i + j of the 96-entry bitmap
\* is true, and every other cell is dead.
C14_CopperheadIsStamped ==
    (last.op = "new_copperhead" /\ last.a >= 41 /\ last.b >= 45) =>
        /\ status = "ok"
        /\ width = last.a /\ height = last.b
        /\ cells.length = last.a * last.b
        /\ cells.ones \subseteq 0..(cells.length - 1)
        /\ Len(copperhead) = 96
        /\ LiveCells(Now) =
               {<<33 + i, 33 + j>> : <<i, j>> \in
                   {ij \in (0..11) \X (0..7) : copperhead[8 * ij[1] + ij[2] + 1]}}

\* C14 witness: new_copperhead(41, 45), the least grid that fits, has
\* returned a universe with live cells.
C14_Witness ==
    /\ last.op = "new_copperhead" /\ status = "ok"
    /\ width = 41 /\ height = 45
    /\ cells.ones # {}

\* The cells draw_glider(r, c) stamps, moved by (d, d) and wrapped.
StampedGlider(r, c, d) ==
    {<<(rc[1] + d) % height, (rc[2] + d) % width>> : rc \in
        {<<r, c>>, <<r - 1, c - 1>>, <<r, c + 1>>, <<r + 1, c>>,
         <<r + 1, c - 1>>}}

\* C15: on an all-dead grid with width, height >= 6, after draw_glider(r, c)
\* and n ticks exactly five cells are alive, and when n is a multiple of 4
\* the live set is the stamped set moved by (n/4, n/4) with toroidal wrap.
C15_GliderTravels ==
    (glider.on /\ width >= 6 /\ height >= 6) =>
        /\ status = "ok"
        /\ Cardinality(LiveCells(Now)) = 5
        /\ Cardinality(cells.ones) = 5
        /\ glider.gen % 4 = 0 =>
               LiveCells(Now) =
                   StampedGlider(glider.row, glider.col, glider.gen \div 4)

\* C15 witness: the 6 x 6 grid, 8 ticks after draw_glider(5, 5) on the
\* all-dead grid: the glider has crossed the bottom and the right edge.
C15_Witness ==
    /\ glider.on /\ glider.gen = 8 /\ status = "ok"
    /\ last.op = "tick"
    /\ width = 6 /\ height = 6
    /\ glider.row = 5 /\ glider.col = 5

====
